---- MODULE Spec2Model ----
(***************************************************************************)
(* bilby_pipe/main.py: the Input / MainInput parameter handling and the    *)
(* Dag job-graph construction.                                             *)
(*                                                                         *)
(* Strings are sequences of one-character strings, so that split, upper,   *)
(* sort and join are computed character by character as Python does.       *)
(***************************************************************************)
EXTENDS Integers, Sequences, FiniteSets, TLC

(* ----------------------------- bounds ---------------------------------- *)
\* words in a space-delimited string / items in a list given as detectors
MaxTokens == 2
\* entries of the sampler list
MaxSamplers == 2
\* direct calls of the Dag's public methods in SpecBuilder
MaxCalls == 3

(* ------------------------ Python string model -------------------------- *)
\* code points of the characters that occur in detector tokens
Ord(c) ==
    CASE c = " " -> 32
      [] c = "1" -> 49
      [] c = "9" -> 57
      [] c = "H" -> 72
      [] c = "L" -> 76
      [] c = "V" -> 86
      [] c = "X" -> 88
      [] c = "_" -> 95
      [] c = "h" -> 104
      [] c = "l" -> 108
      [] c = "v" -> 118
      [] c = "x" -> 120

\* str.upper() on one character
UpperChar(c) ==
    CASE c = "h" -> "H"
      [] c = "l" -> "L"
      [] c = "v" -> "V"
      [] c = "x" -> "X"
      [] OTHER -> c

\* str.upper()
Upper(s) == [i \in 1..Len(s) |-> UpperChar(s[i])]

\* Python's < on str: lexicographic by code point, a proper prefix is smaller
RECURSIVE StrLess(_, _)
StrLess(a, b) ==
    IF b = <<>> THEN FALSE
    ELSE IF a = <<>> THEN TRUE
    ELSE IF Ord(a[1]) < Ord(b[1]) THEN TRUE
    ELSE IF Ord(a[1]) > Ord(b[1]) THEN FALSE
    ELSE StrLess(Tail(a), Tail(b))

\* insertion of one string into a sorted list, after its equals (stable)
RECURSIVE SortInsert(_, _)
SortInsert(x, l) ==
    IF l = <<>> THEN <<x>>
    ELSE IF StrLess(x, l[1]) THEN <<x>> \o l
    ELSE <<l[1]>> \o SortInsert(x, Tail(l))

\* list.sort() on a list of str
RECURSIVE ListSort(_)
ListSort(l) ==
    IF l = <<>> THEN <<>>
    ELSE SortInsert(l[Len(l)], ListSort(SubSeq(l, 1, Len(l) - 1)))

\* ''.join(list of str)
RECURSIVE JoinEmpty(_)
JoinEmpty(l) == IF l = <<>> THEN <<>> ELSE l[1] \o JoinEmpty(Tail(l))

\* sep.join(list of str)
RECURSIVE Join(_, _)
Join(sep, l) ==
    IF l = <<>> THEN <<>>
    ELSE IF Len(l) = 1 THEN l[1]
    ELSE l[1] \o sep \o Join(sep, Tail(l))

\* Input._split_string_by_space: string.split(' '); every single space
\* separates, so "" gives [""] and "a  b" gives ["a", "", "b"]
RECURSIVE SplitFrom(_, _)
SplitFrom(s, cur) ==
    IF s = <<>> THEN <<cur>>
    ELSE IF s[1] = " " THEN <<cur>> \o SplitFrom(Tail(s), <<>>)
    ELSE SplitFrom(Tail(s), Append(cur, s[1]))

_split_string_by_space(string) == SplitFrom(string, <<>>)

(* --------------------------- values ------------------------------------ *)
NoErr == [type |-> "none", msg |-> ""]
Raise(type, msg) == [type |-> type, msg |-> msg]

\* a path is a directory and a base name; the base name is a list of pieces
\* so that '.' + basename is a concatenation
NoPath == [dir |-> <<>>, base |-> <<>>]
\* the file X509_USER_PROXY names, and the file --X509 names
CertPath == [dir |-> <<"tmp">>, base |-> <<"x509up_u1000">>]
ExplicitCert == [dir |-> <<"home">>, base |-> <<"cert.pem">>]
\* args.outdir made absolute
Outdir == <<"bilby_outdir">>
\* args.label
Label == <<"L", "A", "B", "E", "L">>

\* an attribute holding a path, None, or never assigned
Unset == [tag |-> "unset", path |-> NoPath]
None == [tag |-> "None", path |-> NoPath]
PathVal(p) == [tag |-> "path", path |-> p]

(* --------------------------- class Input ------------------------------- *)
\* Input.known_detectors: the default, no _known_detectors being assigned
known_detectors == << <<"H", "1">>, <<"L", "1">>, <<"V", "1">> >>

InList(x, l) == \E i \in 1..Len(l) : l[i] = x

\* a value passed as `detectors`: a str, a list of str, or anything else
StrArg(s) == [kind |-> "str", str |-> s, list |-> <<>>]
ListArg(l) == [kind |-> "list", str |-> <<>>, list |-> l]
OtherArg == [kind |-> "other", str |-> <<>>, list |-> <<>>]

\* Input._convert_detectors_input: split a str (or the str of a
\* one-element list) on spaces, sort, then uppercase
_convert_detectors_input(detectors) ==
    IF detectors.kind \notin {"str", "list"}
    THEN [err |-> Raise("ValueError", "detectors not understood"), val |-> <<>>]
    ELSE
        LET det_list ==
                IF detectors.kind = "str"
                THEN _split_string_by_space(detectors.str)
                ELSE IF Len(detectors.list) = 1
                     THEN _split_string_by_space(detectors.list[1])
                     ELSE detectors.list
            sorted == ListSort(det_list)
        IN  [err |-> NoErr, val |-> [i \in 1..Len(sorted) |-> Upper(sorted[i])]]

\* the check with a loop that stops after the first element
_check_detectors_FirstOnly(detectors) ==
    IF detectors # <<>> /\ ~InList(detectors[1], known_detectors)
    THEN Raise("ValueError", "detectors not in the known detectors list")
    ELSE NoErr

\* Input._check_detectors_against_known_detectors
_check_detectors_against_known_detectors(detectors) ==
    IF \E i \in 1..Len(detectors) : ~InList(detectors[i], known_detectors)
    THEN Raise("ValueError", "detectors not in the known detectors list")
    ELSE NoErr

\* Input.detectors setter: _detectors is assigned before the check runs
detectors_setter(self, detectors) ==
    LET conv == _convert_detectors_input(detectors) IN
    IF conv.err # NoErr
    THEN [self |-> self, err |-> conv.err]
    ELSE [self |-> [self EXCEPT !.has_detectors = TRUE, !.detectors = conv.val],
          err |-> _check_detectors_against_known_detectors(conv.val)]

(* ------------------------- class MainInput ----------------------------- *)
\* the setter recording the path X509_USER_PROXY names instead of the copy
x509userproxy_setter_NoSnapshot(self, x509userproxy, environ, isfile) ==
    IF x509userproxy = None
    THEN IF environ = Unset
         THEN [self |-> [self EXCEPT !.x509userproxy = None], err |-> NoErr,
               log |-> {"X509_USER_PROXY not set"}, written |-> {}]
         ELSE IF ~isfile
         THEN [self |-> self, err |-> NoErr,
               log |-> {"X509_USER_PROXY does not point to a file"},
               written |-> {}]
         ELSE [self |-> [self EXCEPT !.x509userproxy = environ],
               err |-> NoErr, log |-> {},
               written |-> {[dir |-> self.outdir,
                             base |-> <<".">> \o environ.path.base]}]
    ELSE IF isfile
    THEN [self |-> [self EXCEPT !.x509userproxy = x509userproxy],
          err |-> NoErr, log |-> {}, written |-> {}]
    ELSE [self |-> self, err |-> Raise("ValueError", "Input X509 not a file"),
          log |-> {}, written |-> {}]

\* MainInput.x509userproxy setter.  environ is the value of
\* X509_USER_PROXY (Unset when the variable is not set) and isfile tells
\* whether the path that is looked at names an existing file.  The result
\* carries the warnings logged and the files written.
x509userproxy_setter(self, x509userproxy, environ, isfile) ==
    IF x509userproxy = None
    THEN IF environ = Unset
         THEN \* KeyError
              [self |-> [self EXCEPT !.x509userproxy = None], err |-> NoErr,
               log |-> {"X509_USER_PROXY not set"}, written |-> {}]
         ELSE IF ~isfile
         THEN \* FileNotFoundError: nothing is assigned
              [self |-> self, err |-> NoErr,
               log |-> {"X509_USER_PROXY does not point to a file"},
               written |-> {}]
         ELSE LET cert_path == environ.path
                  new_cert_path == [dir |-> self.outdir,
                                    base |-> <<".">> \o cert_path.base]
              IN  [self |-> [self EXCEPT !.x509userproxy = PathVal(new_cert_path)],
                   err |-> NoErr, log |-> {}, written |-> {new_cert_path}]
    ELSE IF isfile
    THEN [self |-> [self EXCEPT !.x509userproxy = x509userproxy],
          err |-> NoErr, log |-> {}, written |-> {}]
    ELSE [self |-> self, err |-> Raise("ValueError", "Input X509 not a file"),
          log |-> {}, written |-> {}]

\* MainInput.x509userproxy getter
x509userproxy_getter(self) ==
    IF self.x509userproxy = Unset
    THEN [err |-> Raise("ValueError", "X509 user proxy has not been correctly set"),
          val |-> Unset]
    ELSE [err |-> NoErr, val |-> self.x509userproxy]

\* the object before MainInput.__init__ has assigned anything
NewInput ==
    [submit |-> FALSE, outdir |-> <<>>, label |-> <<>>, sampler |-> <<>>,
     has_detectors |-> FALSE, detectors |-> <<>>, coherence_test |-> FALSE,
     x509userproxy |-> Unset, injection |-> FALSE, injection_file |-> None]

\* MainInput.__init__, lines 198-213: the assignments up to and including
\* self.detectors = args.detectors
MainInput_detectors(args) ==
    IF ~args.ini_isfile
    THEN [self |-> NewInput, err |-> Raise("ValueError", "ini file is not a file")]
    ELSE detectors_setter([NewInput EXCEPT !.submit = args.submit,
                                           !.outdir = Outdir,
                                           !.label = args.label,
                                           !.sampler = args.sampler],
                          args.detectors)

\* MainInput.__init__, lines 214-219: the remaining assignments
MainInput_x509(self, args, environ, isfile) ==
    LET r == x509userproxy_setter([self EXCEPT !.coherence_test = args.coherence_test],
                                  args.X509, environ, isfile)
    IN  IF r.err # NoErr THEN r
        ELSE [r EXCEPT !.self = [r.self EXCEPT !.injection = args.injection,
                                               !.injection_file = args.injection_file]]

(* ----------------------------- class Dag ------------------------------- *)
\* the keyword arguments of Dag.__init__ left at their defaults
DefaultKwargs ==
    [request_memory |-> "None", request_disk |-> "None", request_cpus |-> "None"]

\* Dag.__init__ up to the first method call: the request_* attributes as
\* lines 339-341 assign them, an empty pycondor.Dagman, no jobs, no
\* generation_job attribute (0)
Dag_fields(kwargs) ==
    [request_memory |-> kwargs.request_memory,
     request_disk |-> kwargs.request_disk,
     request_cpus |-> kwargs.request_disk,
     nodes |-> <<>>, generation_job |-> 0, jobs |-> <<>>,
     results_pages |-> {}, info |-> {}, events |-> <<>>]

\* Dag(inputs), as main() calls it
NewDag == Dag_fields(DefaultKwargs)

\* pycondor.Job(name=..., dag=self.dag, ...): the new job is added to the dag
Job(self, name, role, detectors, sampler, x509) ==
    [self EXCEPT !.nodes = Append(@, [name |-> name, role |-> role,
                                      parents |-> {}, detectors |-> detectors,
                                      sampler |-> sampler, x509userproxy |-> x509,
                                      request_memory |-> self.request_memory,
                                      request_disk |-> self.request_disk,
                                      request_cpus |-> self.request_cpus]),
                 !.events = Append(@, "Job")]

\* add_parent with the edge reversed: the job becomes a parent of `parent`
add_parent_Reversed(self, job, parent) ==
    [self EXCEPT !.nodes[parent].parents = @ \cup {job},
                 !.events = Append(@, "add_parent")]

\* job.add_parent(parent), job and parent being positions in dag.nodes
add_parent(self, job, parent) ==
    [self EXCEPT !.nodes[job].parents = @ \cup {parent},
                 !.events = Append(@, "add_parent")]

\* Dag.check_injection; isfile: the default injection file exists,
\* created: the external create_injection_file returns normally.  info holds
\* the logger.info message of the branch taken; inputs is not assigned to.
check_injection(self, inputs, isfile, created) ==
    IF inputs.injection_file # None
    THEN [self |-> [self EXCEPT !.info = @ \cup {"Using injection file given"}],
          err |-> NoErr]
    ELSE IF isfile
    THEN [self |-> [self EXCEPT !.info = @ \cup {"Using injection file default"}],
          err |-> NoErr]
    ELSE [self |-> [self EXCEPT !.info = @ \cup {"No injection file found"},
                                !.events = Append(@, "create_injection_file")],
          err |-> IF created THEN NoErr
                  ELSE Raise("Exception", "create_injection_file failed")]

\* Dag.create_generation_job; found: shutil.which finds the executable
create_generation_job(self, inputs, found) ==
    LET job_label == inputs.label \o <<"_", "g", "e", "n", "e", "r", "a", "t", "i", "o", "n">>
        x509 == x509userproxy_getter(inputs)
    IN
    IF x509.err # NoErr THEN [self |-> self, err |-> x509.err]
    ELSE IF ~found
    THEN [self |-> self, err |-> Raise("OSError", "bilby_pipe_generation not installed")]
    ELSE LET d == Job(self, job_label, "generation", <<>>, <<>>, x509.val)
         IN  [self |-> [d EXCEPT !.generation_job = Len(d.nodes)], err |-> NoErr]

\* analysis_jobs_inputs with the full detector list replaced, not followed,
\* by the single detectors when the coherence test is on
analysis_jobs_inputs_SinglesOnly(inputs) ==
    LET detectors_list ==
            IF inputs.coherence_test
            THEN [i \in 1..Len(inputs.detectors) |-> <<inputs.detectors[i]>>]
            ELSE <<inputs.detectors>>
        m == Len(inputs.sampler)
    IN  [j \in 1..(Len(detectors_list) * m) |->
            [detectors |-> detectors_list[((j - 1) \div m) + 1],
             sampler |-> inputs.sampler[((j - 1) % m) + 1]]]

\* Dag.analysis_jobs_inputs: the full detector list, then with the coherence
\* test one list per detector, each combined with every sampler
analysis_jobs_inputs(inputs) ==
    LET detectors_list ==
            <<inputs.detectors>> \o
            (IF inputs.coherence_test
             THEN [i \in 1..Len(inputs.detectors) |-> <<inputs.detectors[i]>>]
             ELSE <<>>)
        m == Len(inputs.sampler)
    IN  [j \in 1..(Len(detectors_list) * m) |->
            [detectors |-> detectors_list[((j - 1) \div m) + 1],
             sampler |-> inputs.sampler[((j - 1) % m) + 1]]]

\* Dag._create_analysis_job: the job is added to the dag when pycondor.Job is
\* called, before add_parent reads self.generation_job
_create_analysis_job(self, inputs, detectors, sampler, found) ==
    LET run_label == Join(<<"_">>, <<inputs.label, JoinEmpty(detectors), sampler>>)
        x509 == x509userproxy_getter(inputs)
    IN
    IF x509.err # NoErr THEN [self |-> self, err |-> x509.err, job |-> 0]
    ELSE IF ~found
    THEN [self |-> self, job |-> 0,
          err |-> Raise("OSError", "bilby_pipe_analysis not installed")]
    ELSE LET d == Job(self, run_label, "analysis", detectors, sampler, x509.val)
             job == Len(d.nodes)
         IN  IF self.generation_job = 0
             THEN [self |-> d, job |-> 0,
                   err |-> Raise("AttributeError", "no attribute generation_job")]
             ELSE [self |-> [add_parent(d, job, self.generation_job)
                                EXCEPT !.results_pages = @ \cup {run_label}],
                   job |-> job, err |-> NoErr]

\* the loop of Dag.create_analysis_jobs over job_inputs, from position i
RECURSIVE AnalysisLoop(_, _, _, _, _)
AnalysisLoop(self, inputs, job_inputs, i, found) ==
    IF i > Len(job_inputs) THEN [self |-> self, err |-> NoErr]
    ELSE LET r == _create_analysis_job(self, inputs, job_inputs[i].detectors,
                                       job_inputs[i].sampler, found)
         IN  IF r.err # NoErr THEN [self |-> r.self, err |-> r.err]
             ELSE AnalysisLoop([r.self EXCEPT !.jobs = Append(@, r.job)],
                               inputs, job_inputs, i + 1, found)

\* Dag.create_analysis_jobs
create_analysis_jobs(self, inputs, found) ==
    AnalysisLoop(self, inputs, analysis_jobs_inputs(inputs), 1, found)

\* Dag.build_submit
build_submit(self, inputs) ==
    [self |-> [self EXCEPT !.events =
                   Append(@, IF inputs.submit THEN "build_submit" ELSE "build")],
     err |-> NoErr]

\* Dag.__init__ going on to build_submit although create_analysis_jobs raised
Dag_IgnoresAnalysisError(inputs, env) ==
    LET r1 == IF inputs.injection
              THEN check_injection(NewDag, inputs, env.injection_isfile, env.created)
              ELSE [self |-> NewDag, err |-> NoErr]
    IN
    IF r1.err # NoErr THEN r1
    ELSE
    LET r2 == create_generation_job(r1.self, inputs, env.generation_found) IN
    IF r2.err # NoErr THEN r2
    ELSE build_submit(create_analysis_jobs(r2.self, inputs, env.analysis_found).self,
                      inputs)

\* Dag.__init__: the calls in the order of the code, the first that raises
\* ends the construction.  env gives what the run finds outside itself.
Dag(inputs, env) ==
    LET r1 == IF inputs.injection
              THEN check_injection(NewDag, inputs, env.injection_isfile, env.created)
              ELSE [self |-> NewDag, err |-> NoErr]
    IN
    IF r1.err # NoErr THEN r1
    ELSE
    LET r2 == create_generation_job(r1.self, inputs, env.generation_found) IN
    IF r2.err # NoErr THEN r2
    ELSE
    LET r3 == create_analysis_jobs(r2.self, inputs, env.analysis_found) IN
    IF r3.err # NoErr THEN r3
    ELSE build_submit(r3.self, inputs)

(* --------------------------- input sets -------------------------------- *)
H1 == <<"H", "1">>
L1 == <<"L", "1">>
\* the words a detectors string is made of: known codes in either case, an
\* unknown code and the empty word (two adjacent spaces, or an empty string)
Words == {H1, <<"h", "1">>, L1, <<"X", "9">>, <<>>}
\* the items of a detectors list: a word, or a string of two words
Items == Words \cup {<<"H", "1", " ", "L", "1">>, <<"l", "1", " ", "H", "1">>}

SeqsUpTo(S, lo, hi) == UNION {[1..n -> S] : n \in lo..hi}

DetectorInputs ==
    {StrArg(Join(<<" ">>, ws)) : ws \in SeqsUpTo(Words, 1, MaxTokens)}
    \cup {ListArg(l) : l \in SeqsUpTo(Items, 0, MaxTokens)}
    \cup {OtherArg}

Samplers == {<<"n", "e", "s", "t", "l", "e">>, <<"d", "y", "n", "e", "s", "t", "y">>}
SamplerLists == SeqsUpTo(Samplers, 1, MaxSamplers)

InjPath == [dir |-> <<"data">>, base |-> <<"injection.h5">>]

\* the parsed command line: what MainInput.__init__ reads before the
\* detectors (args.detectors is drawn in Init), and what it reads after
ArgsBefore ==
    [ini_isfile : BOOLEAN, submit : BOOLEAN, label : {Label}, sampler : SamplerLists]
ArgsAfter ==
    [coherence_test : BOOLEAN, X509 : {None, PathVal(ExplicitCert)},
     injection : BOOLEAN, injection_file : {None, PathVal(InjPath)}]

\* args.detectors once MainInput.__init__ has read it; nothing reads it again
Consumed == [kind |-> "consumed", str |-> <<>>, list |-> <<>>]

\* keyword arguments a caller of Dag(inputs, ...) may give
DagKwargs ==
    [request_memory : {"None", "4 GB"}, request_disk : {"None", "10 GB"},
     request_cpus : {"None", "2"}]

\* what Dag.__init__ finds outside the program
DagEnvs ==
    [injection_isfile : BOOLEAN, created : BOOLEAN,
     generation_found : BOOLEAN, analysis_found : BOOLEAN]

(* --------------------------- state machine ----------------------------- *)
VARIABLES
    pc,              \* "main", "detectors" (MainInput.__init__ past line 213),
                     \* "inputs" (MainInput built), "dag" (Dag built),
                     \* "raised" (an exception left main), "builder"
    args_detectors,  \* args.detectors, until it is read
    inputs,          \* the MainInput object
    dag,             \* the Dag object
    err,             \* the exception of the last operation, or NoErr
    log,             \* warnings logged
    written,         \* files the run has written
    kwargs,          \* the keyword arguments the Dag was constructed with
    last,            \* the Dag method called last in SpecBuilder
    calls            \* number of direct method calls in SpecBuilder

vars == <<pc, args_detectors, inputs, dag, err, log, written, kwargs, last, calls>>

Init ==
    /\ pc = "main"
    /\ args_detectors \in DetectorInputs
    /\ inputs = NewInput
    /\ kwargs = DefaultKwargs
    /\ dag = NewDag
    /\ err = NoErr
    /\ log = {}
    /\ written = {}
    /\ last = "none"
    /\ calls = 0

\* main(): inputs = MainInput(args, unknown_args), up to the detectors
MainInputDetectors ==
    /\ pc = "main"
    /\ \E a \in ArgsBefore :
         LET r == MainInput_detectors(a @@ [detectors |-> args_detectors])
         IN  /\ inputs' = r.self
             /\ err' = r.err
             /\ pc' = IF r.err = NoErr THEN "detectors" ELSE "raised"
    /\ args_detectors' = Consumed
    /\ UNCHANGED <<dag, log, written, kwargs, last, calls>>

\* main(): inputs = MainInput(args, unknown_args), after the detectors
MainInputX509 ==
    /\ pc = "detectors"
    /\ \E a \in ArgsAfter, environ \in {Unset, PathVal(CertPath)}, isfile \in BOOLEAN :
         LET r == MainInput_x509(inputs, a, environ, isfile)
         IN  /\ inputs' = r.self
             /\ err' = r.err
             /\ log' = r.log
             /\ written' = r.written
             /\ pc' = IF r.err = NoErr THEN "inputs" ELSE "raised"
    /\ UNCHANGED <<args_detectors, dag, kwargs, last, calls>>

\* main(): dag = Dag(inputs)
DagNew ==
    /\ pc = "inputs"
    /\ \E env \in DagEnvs :
         LET r == Dag(inputs, env)
         IN  /\ dag' = r.self
             /\ err' = r.err
             /\ pc' = IF r.err = NoErr THEN "dag" ELSE "raised"
    /\ UNCHANGED <<args_detectors, inputs, log, written, kwargs, last, calls>>

Next == MainInputDetectors \/ MainInputX509 \/ DagNew

Spec == Init /\ [][Next]_vars

(* ---------------- the Dag's methods, called directly ------------------- *)
\* A Dag as it stands at line 355 of Dag.__init__ (an empty dag, no job),
\* constructed with any of the resource requests a caller may pass,
\* over a MainInput that main() can build; create_generation_job and
\* create_analysis_jobs are then called in any order, as a caller of these
\* public methods may, each call returning or raising into the caller.
InitBuilder ==
    /\ pc = "builder"
    /\ args_detectors = Consumed
    /\ \E raw \in DetectorInputs, a \in ArgsBefore, b \in ArgsAfter,
          environ \in {Unset, PathVal(CertPath)}, isfile \in BOOLEAN :
         LET r1 == MainInput_detectors(a @@ [detectors |-> raw])
             r2 == MainInput_x509(r1.self, b, environ, isfile)
         IN  /\ ~a.submit /\ ~b.injection /\ b.injection_file = None
             /\ r1.err = NoErr
             /\ r2.err = NoErr
             /\ inputs = r2.self
             /\ log = r2.log
             /\ written = r2.written
    /\ kwargs \in DagKwargs
    /\ dag = Dag_fields(kwargs)
    /\ err = NoErr
    /\ last = "none"
    /\ calls = 0

\* dag.create_generation_job()
CallCreateGenerationJob ==
    /\ pc = "builder"
    /\ calls < MaxCalls
    /\ \E found \in BOOLEAN :
         LET r == create_generation_job(dag, inputs, found)
         IN  dag' = r.self /\ err' = r.err
    /\ last' = "create_generation_job"
    /\ calls' = calls + 1
    /\ UNCHANGED <<pc, args_detectors, inputs, log, written, kwargs>>

\* dag.create_analysis_jobs()
CallCreateAnalysisJobs ==
    /\ pc = "builder"
    /\ calls < MaxCalls
    /\ \E found \in BOOLEAN :
         LET r == create_analysis_jobs(dag, inputs, found)
         IN  dag' = r.self /\ err' = r.err
    /\ last' = "create_analysis_jobs"
    /\ calls' = calls + 1
    /\ UNCHANGED <<pc, args_detectors, inputs, log, written, kwargs>>

NextBuilder == CallCreateGenerationJob \/ CallCreateAnalysisJobs

SpecBuilder == InitBuilder /\ [][NextBuilder]_vars

(* ------------------------------ claims --------------------------------- *)
AnalysisNodes == {i \in 1..Len(dag.nodes) : dag.nodes[i].role = "analysis"}
GenerationNodes == {i \in 1..Len(dag.nodes) : dag.nodes[i].role = "generation"}

\* C1: a Dag built from an Input with k detectors and m samplers holds m
\* analysis jobs without the coherence test and m * (k + 1) with it.
C1_AnalysisJobCount ==
    pc = "dag" =>
        LET k == Len(inputs.detectors)
            m == Len(inputs.sampler)
            n == IF inputs.coherence_test THEN m * (k + 1) ELSE m
        IN  Len(dag.jobs) = n /\ Cardinality(AnalysisNodes) = n

C1_Witness ==
    /\ pc = "dag"
    /\ inputs.coherence_test
    /\ Len(inputs.detectors) = 2
    /\ Len(inputs.sampler) = 2
    /\ Len(dag.jobs) = 6

\* the nodes reachable from the set S along parent edges in at most k steps
RECURSIVE Ancestors(_, _, _)
Ancestors(nodes, S, k) ==
    IF k = 0 THEN S
    ELSE Ancestors(nodes, S \cup UNION {nodes[i].parents : i \in S}, k - 1)

NoCycle(nodes) ==
    \A i \in 1..Len(nodes) : i \notin Ancestors(nodes, nodes[i].parents, Len(nodes))

\* C2: the graph of a constructed Dag has exactly one generation node, which
\* has no parents; the parent set of every analysis node is exactly that
\* node; and the parent relation has no cycle.
C2_DependencyInvariant ==
    pc = "dag" =>
        /\ Cardinality(GenerationNodes) = 1
        /\ \A g \in GenerationNodes :
             /\ dag.nodes[g].parents = {}
             /\ \A a \in AnalysisNodes : dag.nodes[a].parents = {g}
        /\ NoCycle(dag.nodes)

C2_Witness ==
    /\ pc = "dag"
    /\ Cardinality(AnalysisNodes) >= 3
    /\ \A a \in AnalysisNodes : dag.nodes[a].parents = GenerationNodes

NoDuplicates(l) == \A i, j \in 1..Len(l) : i # j => l[i] # l[j]

\* C3: for a valid Input (a non-empty list of distinct known detectors, a
\* non-empty list of distinct samplers) the jobs of the constructed Dag have
\* pairwise distinct names.
C3_DistinctNames ==
    ( /\ pc = "dag"
      /\ inputs.detectors # <<>>
      /\ \A i \in 1..Len(inputs.detectors) : InList(inputs.detectors[i], known_detectors)
      /\ NoDuplicates(inputs.detectors)
      /\ inputs.sampler # <<>>
      /\ NoDuplicates(inputs.sampler) )
    => \A i, j \in 1..Len(dag.nodes) :
           i # j => dag.nodes[i].name # dag.nodes[j].name

\* C4: the detectors stored by a successful assignment are all uppercase, in
\* ascending lexicographic order, and without a repeated token.
C4_Canonical ==
    pc = "detectors" =>
        LET d == inputs.detectors IN
        /\ \A i \in 1..Len(d) : Upper(d[i]) = d[i]
        /\ \A i \in 1..(Len(d) - 1) : ~StrLess(d[i + 1], d[i])
        /\ NoDuplicates(d)

\* C5: normalizing the stored (already normalized) detectors again gives the
\* same list.
C5_Idempotent ==
    pc = "detectors" =>
        _convert_detectors_input(ListArg(inputs.detectors)).val = inputs.detectors

\* the input is not a str or list, or one of its normalized tokens is unknown
Rejectable(detectors) ==
    \/ detectors.kind \notin {"str", "list"}
    \/ LET tokens == _convert_detectors_input(detectors).val
       IN  \E i \in 1..Len(tokens) :
              tokens[i] \notin {known_detectors[n] : n \in 1..Len(known_detectors)}

\* C6: an assignment of detectors raises ValueError whenever the input is
\* neither a str nor a list or a normalized token is not a known detector,
\* and after an assignment that succeeds every stored detector is known.
C6_UnknownRejected ==
    [][ (pc = "main" /\ pc' # "main" /\ err'.msg # "ini file is not a file") =>
          /\ Rejectable(args_detectors) =>
                (pc' = "raised" /\ err'.type = "ValueError")
          /\ pc' = "detectors" =>
                \A i \in 1..Len(inputs'.detectors) :
                    InList(inputs'.detectors[i], known_detectors) ]_vars

C6_Witness ==
    /\ pc = "raised"
    /\ inputs.has_detectors
    /\ err = Raise("ValueError", "detectors not in the known detectors list")
    /\ \E i \in 1..Len(inputs.detectors) : inputs.detectors[i] = <<"X", "9">>

\* C7: an assignment whose normalized detectors are empty never succeeds (it
\* raises an error other than the unknown-detector error), and no analysis
\* job is built with an empty detector list.
C7_EmptySetRejected ==
    /\ (inputs.has_detectors /\ inputs.detectors = <<>>) =>
          /\ pc = "raised"
          /\ err.type # "none"
          /\ err.msg # "detectors not in the known detectors list"
    /\ \A a \in AnalysisNodes : dag.nodes[a].detectors # <<>>

\* C8: when a warning about X509_USER_PROXY was logged (the variable unset,
\* or naming a missing file) the credential is None and no later step raises
\* because of the credential.
C8_CredentialFallback ==
    log # {} =>
        /\ inputs.x509userproxy = None
        /\ err.msg # "X509 user proxy has not been correctly set"

C10_AtMostOneGeneration ==
    Cardinality(GenerationNodes) <= 1

\* the positions in dag.events at which the graph is handed to the backend
BackendCalls ==
    {i \in 1..Len(dag.events) : dag.events[i] \in {"build", "build_submit"}}

\* C11: the backend is called at most once and as the last step of a
\* construction in which the injection check ran if requested, the generation
\* job was created and all analysis jobs were created; a construction that
\* raised never called it; and build_submit is called only with submit set.
C11_BackendAfterAllJobs ==
    /\ BackendCalls # {} =>
          /\ pc = "dag"
          /\ BackendCalls = {Len(dag.events)}
          /\ inputs.injection => dag.info # {}
          /\ Cardinality(GenerationNodes) = 1
          /\ LET k == Len(inputs.detectors)
                 m == Len(inputs.sampler)
             IN  Len(dag.jobs) = IF inputs.coherence_test THEN m * (k + 1) ELSE m
          /\ dag.events[Len(dag.events)] = "build_submit" => inputs.submit
    /\ pc = "raised" => BackendCalls = {}

C11_Witness ==
    /\ pc = "dag"
    /\ inputs.submit
    /\ Len(dag.jobs) >= 2
    /\ dag.events[1] = "create_injection_file"
    /\ dag.events[Len(dag.events)] = "build_submit"

\* Dag.__init__ has run (to its end, or to an exception of one of its steps)
DagRan ==
    \/ pc = "dag"
    \/ /\ pc = "raised"
       /\ \/ err.type \in {"OSError", "Exception"}
          \/ err.msg = "X509 user proxy has not been correctly set"

GeneratorCalls ==
    {i \in 1..Len(dag.events) : dag.events[i] = "create_injection_file"}

\* C12: the injection generator is invoked exactly when an injection is
\* requested, no injection file is given and no default file exists; it is
\* then invoked before any job is created, and in the constructed Dag
\* inputs.injection_file holds a path.
C12_InjectionGenerated ==
    DagRan =>
        /\ GeneratorCalls # {} <=>
              /\ inputs.injection
              /\ inputs.injection_file = None
              /\ "Using injection file default" \notin dag.info
        /\ GeneratorCalls # {} => GeneratorCalls = {1}
        /\ (GeneratorCalls # {} /\ pc = "dag") => inputs.injection_file # None

\* the credential references carried by the jobs of the dag
CredentialRefs ==
    {dag.nodes[i].x509userproxy.path :
        i \in {n \in 1..Len(dag.nodes) : dag.nodes[n].x509userproxy.tag = "path"}}

\* C13 as stated: every credential reference of a job of a constructed Dag
\* is the hidden copy outdir/.<basename> that the run has written, never a
\* source path.
C13_SnapshotOnly ==
    pc = "dag" => \A p \in CredentialRefs :
        /\ p \in written
        /\ p.dir = Outdir
        /\ p.base[1] = "."
        /\ p \notin {CertPath, ExplicitCert}

\* C13 amended: a credential reference of a job is either the path given
\* with --X509, used as it is without a copy, or the hidden copy
\* outdir/.<basename> of the file X509_USER_PROXY names, which the run has
\* written; it is never the path X509_USER_PROXY names.
C13_SnapshotFromEnvironment ==
    \A p \in CredentialRefs :
        \/ p = ExplicitCert /\ written = {}
        \/ /\ p = [dir |-> Outdir, base |-> <<".">> \o CertPath.base]
           /\ p \in written

C13_Witness ==
    /\ pc = "dag"
    /\ Cardinality(AnalysisNodes) >= 2
    /\ CredentialRefs = {[dir |-> Outdir, base |-> <<".">> \o CertPath.base]}
    /\ CredentialRefs \subseteq written

\* C14: every job carries the resource requests the Dag was constructed
\* with: memory = request_memory, disk = request_disk, cpus = request_cpus.
C14_ResourcePassThrough ==
    \A i \in 1..Len(dag.nodes) :
        /\ dag.nodes[i].request_memory = kwargs.request_memory
        /\ dag.nodes[i].request_disk = kwargs.request_disk
        /\ dag.nodes[i].request_cpus = kwargs.request_cpus

====
